---- MODULE Spec2Model ----
(***************************************************************************)
(* Provider-process orchestration of the Discord bot: message intake       *)
(* (DiscordBot.handleMessage), the per-channel registry and process        *)
(* lifecycle (ClaudeManager), the dispatch of streamed stdout lines, the   *)
(* plan-review round trip and the slash commands /stop, /clear, /provider. *)
(*                                                                         *)
(* A run is identified by the inbound message that started it: message m   *)
(* spawns at most one process, called process m.  A stdout chunk holding   *)
(* k complete lines acts as k consecutive single-line data events, since   *)
(* the continuation of an async handler never runs inside the data         *)
(* handler's loop; the model therefore dispatches one line per data event. *)
(* Chat-surface calls take arbitrary time and are taken to succeed; a      *)
(* message is visible on the chat surface when its send is issued.         *)
(***************************************************************************)
EXTENDS Integers, Sequences, FiniteSets, TLC

\* ---------------------------------------------------------------- bounds
MaxMsgs == 2        \* inbound messages of the authorised user
MaxCalls == 1       \* tool invocations and approval requests of all providers
MaxInputs == 3      \* messages, slash commands, folder removals and invocations
MaxOutput == 5      \* bytes of the full stdout output given to the line framer
MaxFeedback == 2
MaxPrompt == 3
MaxLine == 2
MaxResponse == 3
MaxWrites == 2
MaxClock == 2
MaxQuestions == 2
MaxSegments == 3    \* characters of the feedback a human gives on a rejected plan

\* ------------------------------------------------------ program constants
NumChannels == 2             \* channels of the guild served by the bot
ProcessTimeoutMs == 300000   \* overall run timer, 5 * 60 * 1000
PlanReviewMs == 300000       \* awaitMessageComponent time of the plan review
NullCode == -1
ThirtyDays == 1               \* close(code) with code === null: death by signal

Msgs == 1..MaxMsgs
Calls == 1..MaxCalls
Channels == 1..NumChannels
Providers == {"claude", "codex"}
ExitCodes == {0, 1}
NoEntry == [process |-> -1]

VARIABLES
    handler,           \* handleMessage invocations: [pc, chan, sid]
    channelProcesses,  \* registry: channel -> NoEntry or [process |-> 0 (null) | run]
    channelMessages,   \* channel -> run whose status reply is the handle, 0 = absent
    channelToolCalls,  \* channel -> id of the Map object installed, 0 = absent
    session,           \* db.getSession: channel -> run that issued the stored id, 0 = none
    provider,          \* db.getProvider: channel -> provider
    dirExists,         \* fs.existsSync of the channel's working directory
    proc,              \* child processes, one slot per run
    call,              \* tool invocations and the async handler that owns each
    nextCall,          \* next unused invocation id
    posted,            \* terminal notifications posted on behalf of each run
    stdinWrites,       \* stdin.write calls of sendToolResponse, in order
    inputs,            \* inputs of the users and the providers so far
    notAuthorized,     \* "You are not authorized" replies sent to other users
    output,            \* line framer: the full stdout output of one process, in bytes
    unread,            \* line framer: the bytes not yet delivered by a data event
    buffer,            \* line framer: the partial line kept between data events
    dispatched,        \* line framer: the lines handed to JSON.parse, in order
    streamClosed,      \* line framer: the process's "close" event has been handled
    request,           \* builders: the arguments of one call
    commandParts,      \* builders: the command line built by buildClaudeCommand
    jsonLine,          \* builders: the line sendToolResponse writes to stdin
    codexParts,        \* builders: the command line built by buildCodexCommand
    prompt,            \* shell: the prompt of one run
    escapedPrompt,     \* shell: escapeShellString(prompt)
    argv,              \* shell: the words bash makes of the command line
    relayLine,         \* relay: the line read from stdin
    relayRequests,     \* relay: the HTTP requests sent to the approval server
    relayResponse,     \* relay: what came of the request
    relayStdout,       \* relay: the lines written to stdout
    db,                \* store: table -> rows [channel_id, value, last_used]
    dbLog,             \* store: the writes so far, in order
    dbNow,             \* store: Date.now(), in units of thirty days
    dbRead,            \* store: the last get and what it returned
    askQuestions,      \* questions: tool.input.questions of one AskUserQuestion
    askIndex,          \* questions: the question being presented, 0 before the first
    askStage,          \* questions: what the handler waits for
    askAnswers,        \* questions: the answers object
    askEvents,         \* questions: how each presented question was resolved
    askReplies,        \* questions: the sendToolResponse calls of the handler
    pathRequest,       \* files: the /ls or /cat command and its path option
    pathReply,         \* files: the reply of the command
    pathRead           \* files: the path handed to readdirSync / readFileSync

\* the variables of the stdout line framer
framer == <<output, unread, buffer, dispatched, streamClosed>>

\* the variables of the command and payload builders
builder == <<request, commandParts, jsonLine, codexParts>>

\* the variables of the shell quoting
shell == <<prompt, escapedPrompt, argv>>

\* the variables of the approval relay
relay == <<relayLine, relayRequests, relayResponse, relayStdout>>

\* the variables of the settings store
store == <<db, dbLog, dbNow, dbRead>>

\* the variables of the question handler
asking == <<askQuestions, askIndex, askStage, askAnswers, askEvents, askReplies>>

\* the variables of the /ls and /cat commands
browsing == <<pathRequest, pathReply, pathRead>>

\* the variables of the components checked on their own
aside == <<shell, relay, store, asking, browsing>>

\* the variables of the manager and the message handlers
manager == <<handler, channelProcesses, channelMessages, channelToolCalls, session,
             provider, dirExists, proc, call, nextCall, posted, stdinWrites, inputs,
             notAuthorized>>

vars == <<handler, channelProcesses, channelMessages, channelToolCalls, session,
          provider, dirExists, proc, call, nextCall, posted, stdinWrites, inputs,
          notAuthorized, output, unread, buffer, dispatched, streamClosed,
          request, commandParts, jsonLine, codexParts, prompt, escapedPrompt, argv,
          relayLine, relayRequests, relayResponse, relayStdout,
          db, dbLog, dbNow, dbRead,
          askQuestions, askIndex, askStage, askAnswers, askEvents, askReplies,
          pathRequest, pathReply, pathRead>>

NoProc == [state |-> "none", chan |-> 0, prov |-> "claude", sigterm |-> FALSE,
           timer |-> "none", stdin |-> "none", result |-> "none"]
NoCall == [proc |-> 0, kind |-> "none", pc |-> "none", cap |-> 0, rec |-> 0,
           msg |-> "none", resulted |-> FALSE, resolved |-> 0, decision |-> "none",
           late |-> FALSE, standalone |-> FALSE]
\* terminal notifications of a run: how many, and the exit code shown by the
\* "Failed" notification (NullCode while there is none)
NoNotes == [n |-> 0, code |-> NullCode]

\* ------------------------------------------------------------- ClaudeManager
hasActiveProcess(c) == channelProcesses[c] # NoEntry

\* a SIGTERM that is never delivered
killLost(procs, p) == procs

\* ChildProcess.kill("SIGTERM"): no effect on a process that is gone
kill(procs, p) ==
    IF p > 0 /\ procs[p].state = "running"
    THEN [procs EXCEPT ![p].sigterm = TRUE]
    ELSE procs

\* a stop that signals every running process, whatever its channel
killEveryProcess(procs, c) ==
    [q \in Msgs |-> IF procs[q].state = "running"
                    THEN [procs[q] EXCEPT !.sigterm = TRUE]
                    ELSE procs[q]]

\* killActiveProcess as a function of the process table
killActiveProcess(procs, c) ==
    IF channelProcesses[c] # NoEntry /\ channelProcesses[c].process > 0
    THEN kill(procs, channelProcesses[c].process)
    ELSE procs

\* the channel's chat handle: this.channelMessages.get(channelId)?.channel
hasChannel(c) == channelMessages[c] # 0

\* a notification that is never sent
postLost(p, c) == posted

\* channel.send of a terminal notification, guarded by "if (channel)"
post(p, c) ==
    IF hasChannel(c) THEN [posted EXCEPT ![p].n = @ + 1] ELSE posted

\* a close handler that surfaces nothing
postFailedSilent(p, c, code) == posted

\* the same for the "Failed" notification, which shows the exit code
postFailed(p, c, code) ==
    IF hasChannel(c) THEN [posted EXCEPT ![p].n = @ + 1, ![p].code = code] ELSE posted

\* clearSession after its killActiveProcess call produced the table `killed`
clearSession(c, killed) ==
    /\ proc' = killed
    /\ session' = [session EXCEPT ![c] = 0]
    /\ channelMessages' = [channelMessages EXCEPT ![c] = 0]
    /\ channelToolCalls' = [channelToolCalls EXCEPT ![c] = 0]
    /\ channelProcesses' = [channelProcesses EXCEPT ![c] = NoEntry]

InitManager ==
    /\ handler = [m \in Msgs |-> [pc |-> "new", chan |-> 0, sid |-> 0]]
    /\ channelProcesses = [c \in Channels |-> NoEntry]
    /\ channelMessages = [c \in Channels |-> 0]
    /\ channelToolCalls = [c \in Channels |-> 0]
    /\ session = [c \in Channels |-> 0]
    /\ provider = [c \in Channels |-> "claude"]
    /\ dirExists = [c \in Channels |-> TRUE]
    /\ proc = [m \in Msgs |-> NoProc]
    /\ call = [k \in Calls |-> NoCall]
    /\ nextCall = 1
    /\ posted = [m \in Msgs |-> NoNotes]
    /\ stdinWrites = <<>>
    /\ inputs = 0
    /\ notAuthorized = 0

\* no command line and no stdin line is being built
NoRequest == [toolUseId |-> "", rejected |-> FALSE, feedback |-> <<>>,
              mode |-> "auto", sessionId |-> 0]
InitBuilder ==
    request = NoRequest /\ commandParts = <<>> /\ jsonLine = <<>> /\ codexParts = <<>>

\* no prompt is being quoted
InitShell == prompt = <<>> /\ escapedPrompt = <<>> /\ argv = <<>>

\* no request has come of the relay
NoResponse == [state |-> "none", data |-> <<>>]

\* the relay has read no line
InitRelay ==
    /\ relayLine = <<>> /\ relayRequests = <<>>
    /\ relayResponse = NoResponse /\ relayStdout = <<>>

\* the tables of DatabaseManager
Tables == {"session", "mode", "model", "provider", "path"}

\* no get yet
NoRead == [table |-> "none", channel_id |-> 0, value |-> "none", at |-> 0]

\* initializeTables on a new file: five empty tables
InitStore ==
    /\ db = [t \in Tables |-> {}]
    /\ dbLog = <<>>
    /\ dbNow = 0
    /\ dbRead = NoRead

\* the texts of the questions a request may carry
QuestionTexts == {"q1", "q2"}

\* const answers = {}: no key is set
NoAnswers == [q \in QuestionTexts |-> "unset"]

\* no AskUserQuestion request is being handled
InitAsking ==
    /\ askQuestions = <<>> /\ askIndex = 0 /\ askStage = "idle"
    /\ askAnswers = NoAnswers /\ askEvents = <<>> /\ askReplies = <<>>

\* no /ls or /cat command has been given
NoPath == [command |-> "none", path |-> <<>>]

InitBrowsing == pathRequest = NoPath /\ pathReply = "none" /\ pathRead = <<>>

\* the components checked on their own are idle
InitAside == InitShell /\ InitRelay /\ InitStore /\ InitAsking /\ InitBrowsing

\* no process output is being framed
Init ==
    /\ InitManager
    /\ output = <<>> /\ unread = <<>> /\ buffer = <<>> /\ dispatched = <<>>
    /\ streamClosed = FALSE
    /\ InitBuilder
    /\ InitAside

\* one more input of the user or of a provider
input == inputs < MaxInputs /\ inputs' = inputs + 1

\* ------------------------------------------------------------ message intake
\* an intake without the busy check: the message goes on to its status send
MessageCreateQueues(m, c) ==
    /\ handler[m].pc = "new"
    /\ IF m = 1 THEN c = 1 ELSE handler[m - 1].pc # "new"
    /\ input
    /\ handler' = [handler EXCEPT ![m] =
          IF ~dirExists[c] THEN [pc |-> "folder", chan |-> c, sid |-> 0]
          ELSE [pc |-> "status", chan |-> c, sid |-> session[c]]]
    /\ UNCHANGED <<channelProcesses, channelMessages, channelToolCalls, session, provider,
                   dirExists, proc, call, nextCall, posted, stdinWrites>>
    /\ UNCHANGED <<notAuthorized, framer, builder, aside>>

\* handleMessage up to its first await: busy check, folder check, status send.
\* Messages are numbered in arrival order and the channels are interchangeable,
\* so the first message is taken to arrive on channel 1.
MessageCreate(m, c) ==
    /\ handler[m].pc = "new"
    /\ IF m = 1 THEN c = 1 ELSE handler[m - 1].pc # "new"
    /\ input
    /\ handler' = [handler EXCEPT ![m] =
          IF hasActiveProcess(c) THEN [pc |-> "dropped", chan |-> c, sid |-> 0]
          ELSE IF ~dirExists[c] THEN [pc |-> "folder", chan |-> c, sid |-> 0]
          ELSE [pc |-> "status", chan |-> c, sid |-> session[c]]]
    /\ UNCHANGED <<channelProcesses, channelMessages, channelToolCalls, session, provider,
                   dirExists, proc, call, nextCall, posted, stdinWrites>>
    /\ UNCHANGED <<notAuthorized, framer, builder, aside>>

\* the folder prompt resolves: Create Folder, or Change Path / 60 s timeout
FolderButton(m, create) ==
    /\ handler[m].pc = "folder"
    /\ LET c == handler[m].chan IN
       IF create
       THEN /\ dirExists' = [dirExists EXCEPT ![c] = TRUE]
            /\ handler' = [handler EXCEPT ![m].pc = "status", ![m].sid = session[c]]
       ELSE /\ handler' = [handler EXCEPT ![m].pc = "declined"]
            /\ UNCHANGED dirExists
    /\ UNCHANGED <<channelProcesses, channelMessages, channelToolCalls, session, provider,
                   proc, call, nextCall, posted, stdinWrites, inputs>>
    /\ UNCHANGED <<notAuthorized, framer, builder, aside>>

\* the status send returned: setDiscordMessage, then await downloadAttachments
StatusSent(m) ==
    /\ handler[m].pc = "status"
    /\ LET c == handler[m].chan IN
       /\ channelMessages' = [channelMessages EXCEPT ![c] = m]
       /\ channelToolCalls' = [channelToolCalls EXCEPT ![c] = m]
    /\ handler' = [handler EXCEPT ![m].pc = "attach"]
    /\ UNCHANGED <<channelProcesses, session, provider, dirExists, proc, call, nextCall,
                   posted, stdinWrites, inputs>>
    /\ UNCHANGED <<notAuthorized, framer, builder, aside>>

\* a reservation that leaves the registered process alone
reserveWithoutKill(procs, c) == procs

\* reserveChannel: kill the registered process (the placeholder entry it installs
\* is replaced by the spawned process, or deleted, within the same step)
reserveChannel(procs, c) == killActiveProcess(procs, c)

\* a command line that never resumes
resumeNever(sessionId) == <<>>

\* buildClaudeCommand / buildCodexCommand: the resume part of the command line
resumeArgs(sessionId) ==
    IF sessionId # 0 THEN <<"--resume", sessionId>> ELSE <<>>

\* the process record right after spawn in runClaudeCode / runCodex
spawned(c) ==
    [state |-> "running", chan |-> c, prov |-> provider[c], sigterm |-> FALSE,
     timer |-> "pending",
     stdin |-> IF provider[c] = "claude" THEN "ended" ELSE "null",
     result |-> "none"]

\* a run that spawns without looking at the working directory
StartRunUnchecked(m) ==
    /\ handler[m].pc = "attach"
    /\ LET c == handler[m].chan
       IN /\ proc' = [reserveChannel(proc, c) EXCEPT ![m] = spawned(c)]
          /\ channelProcesses' = [channelProcesses EXCEPT ![c] = [process |-> m]]
          /\ handler' = [handler EXCEPT ![m].pc = "started", ![m].sid = 0]
    /\ UNCHANGED <<channelMessages, channelToolCalls, session, posted,
                   provider, dirExists, call, nextCall, stdinWrites, inputs>>
    /\ UNCHANGED <<notAuthorized, framer, builder, aside>>

\* attachments are in: reserveChannel, runClaudeCode, and the catch block
StartRun(m) ==
    /\ handler[m].pc = "attach"
    /\ LET c == handler[m].chan
           reserved == reserveChannel(proc, c)
       IN IF dirExists[c]
          THEN /\ proc' = [reserved EXCEPT ![m] = spawned(c)]
               /\ channelProcesses' = [channelProcesses EXCEPT ![c] = [process |-> m]]
               /\ handler' = [handler EXCEPT ![m].pc = "started", ![m].sid = 0]
               /\ UNCHANGED <<channelMessages, channelToolCalls, session, posted>>
          ELSE \* throw "Working directory does not exist" -> clearSession, Error message
               /\ clearSession(c, reserved)
               /\ posted' = [posted EXCEPT ![m].n = @ + 1]
               /\ handler' = [handler EXCEPT ![m].pc = "failed", ![m].sid = 0]
    /\ UNCHANGED <<provider, dirExists, call, nextCall, stdinWrites, inputs>>
    /\ UNCHANGED <<notAuthorized, framer, builder, aside>>

\* ------------------------------------------------------- other users
\* the state every handler of the bot may change
botState == <<handler, channelProcesses, channelMessages, channelToolCalls, session,
              provider, dirExists, proc, call, nextCall, posted, stdinWrites>>

\* an intake without the author check: the other user's message is taken in
MessageCreateOtherAccepted(c) ==
    \E m \in Msgs : MessageCreate(m, c)

\* handleMessage for a message of another user: return at the author check
MessageCreateOther(c) ==
    /\ input
    /\ UNCHANGED botState
    /\ UNCHANGED <<notAuthorized, framer, builder, aside>>

\* handleInteraction for a slash command of another user: the reply, return
InteractionOther(c) ==
    /\ input
    /\ notAuthorized' = notAuthorized + 1
    /\ UNCHANGED botState
    /\ UNCHANGED <<framer, builder, aside>>

\* handleReactionAdd for a reaction of another user: return at the user check
ReactionAddOther(k, approved) ==
    /\ input
    /\ UNCHANGED botState
    /\ UNCHANGED <<notAuthorized, framer, builder, aside>>

\* ------------------------------------------------------------ slash commands
\* /stop: killActiveProcess when the channel is busy
Stop(c) ==
    /\ input
    /\ hasActiveProcess(c)
    /\ proc' = killActiveProcess(proc, c)
    /\ UNCHANGED <<handler, channelProcesses, channelMessages, channelToolCalls, session,
                   provider, dirExists, call, nextCall, posted, stdinWrites>>
    /\ UNCHANGED <<notAuthorized, framer, builder, aside>>

\* /clear: clearSession
Clear(c) ==
    /\ input
    /\ clearSession(c, killActiveProcess(proc, c))
    /\ UNCHANGED <<handler, provider, dirExists, call, nextCall, posted, stdinWrites>>
    /\ UNCHANGED <<notAuthorized, framer, builder, aside>>

\* /provider: setProvider stores the provider and clears the session
SetProvider(c, pr) ==
    /\ input
    /\ provider' = [provider EXCEPT ![c] = pr]
    /\ clearSession(c, killActiveProcess(proc, c))
    /\ UNCHANGED <<handler, dirExists, call, nextCall, posted, stdinWrites>>
    /\ UNCHANGED <<notAuthorized, framer, builder, aside>>

\* the working directory disappears (deleted outside the bot or by the agent)
RemoveDir(c) ==
    /\ input
    /\ dirExists[c]
    /\ dirExists' = [dirExists EXCEPT ![c] = FALSE]
    /\ UNCHANGED <<handler, channelProcesses, channelMessages, channelToolCalls, session,
                   provider, proc, call, nextCall, posted, stdinWrites>>
    /\ UNCHANGED <<notAuthorized, framer, builder, aside>>

\* ------------------------------------------------------- process lifecycle
\* the 5 minute timer of a run fires: SIGTERM and the Timeout notification
TimerFire(p) ==
    /\ proc[p].timer = "pending"
    /\ proc' = [kill(proc, p) EXCEPT ![p].timer = "off"]
    /\ posted' = post(p, proc[p].chan)
    /\ UNCHANGED <<handler, channelProcesses, channelMessages, channelToolCalls, session,
                   provider, dirExists, call, nextCall, stdinWrites, inputs>>
    /\ UNCHANGED <<notAuthorized, framer, builder, aside>>

\* a close handler that forgets clearTimeout
ProcCloseKeepsTimer(p, code) ==
    /\ proc[p].state = "running"
    /\ IF code = NullCode THEN proc[p].sigterm ELSE TRUE
    /\ LET c == proc[p].chan IN
       /\ proc' = [proc EXCEPT ![p].state = "closed", ![p].sigterm = FALSE]
       /\ channelProcesses' = [channelProcesses EXCEPT ![c] = NoEntry]
       /\ posted' = IF code # 0 /\ code # NullCode
                    THEN postFailed(p, c, code)
                    ELSE posted
    /\ UNCHANGED <<handler, channelMessages, channelToolCalls, session, provider,
                   dirExists, call, nextCall, stdinWrites, inputs>>
    /\ UNCHANGED <<notAuthorized, framer, builder, aside>>

\* the "close" handler of runClaudeCode / runCodex
ProcClose(p, code) ==
    /\ proc[p].state = "running"
    /\ IF code = NullCode THEN proc[p].sigterm ELSE TRUE
    /\ LET c == proc[p].chan IN
       /\ proc' = [proc EXCEPT ![p].state = "closed", ![p].timer = "off",
                               ![p].sigterm = FALSE]
       /\ channelProcesses' = [channelProcesses EXCEPT ![c] = NoEntry]
       /\ posted' = IF code # 0 /\ code # NullCode
                    THEN postFailed(p, c, code)
                    ELSE posted
    /\ UNCHANGED <<handler, channelMessages, channelToolCalls, session, provider,
                   dirExists, call, nextCall, stdinWrites, inputs>>
    /\ UNCHANGED <<notAuthorized, framer, builder, aside>>

\* the "error" handler: the process could not be spawned
ProcError(p) ==
    /\ proc[p].state = "running"
    /\ proc[p].result = "none" /\ ~proc[p].sigterm /\ proc[p].timer = "pending"
    /\ session[proc[p].chan] # p
    /\ \A k \in Calls : call[k].proc # p
    /\ LET c == proc[p].chan IN
       /\ proc' = [proc EXCEPT ![p].state = "errored", ![p].timer = "off"]
       /\ channelProcesses' = [channelProcesses EXCEPT ![c] = NoEntry]
       /\ posted' = post(p, c)
    /\ UNCHANGED <<handler, channelMessages, channelToolCalls, session, provider,
                   dirExists, call, nextCall, stdinWrites, inputs>>
    /\ UNCHANGED <<notAuthorized, framer, builder, aside>>

\* ------------------------------------------------------------ stdout dispatch
\* a running provider that has not yet written its result line
emitting(p) == proc[p].state = "running" /\ proc[p].result = "none"

\* a "system" line (claude) or "thread.started" (codex): db.setSession
StdoutSystem(p) ==
    /\ emitting(p)
    /\ session[proc[p].chan] # p
    /\ session' = [session EXCEPT ![proc[p].chan] = p]
    /\ UNCHANGED <<handler, channelProcesses, channelMessages, channelToolCalls, provider,
                   dirExists, proc, call, nextCall, posted, stdinWrites, inputs>>
    /\ UNCHANGED <<notAuthorized, framer, builder, aside>>

\* this.channelToolCalls.get(channelId) || new Map(), evaluated by the handler
\* of invocation k: the installed Map, or a fresh one known only to k
toolCallsOf(c, k) ==
    IF channelToolCalls[c] # 0 THEN channelToolCalls[c] ELSE MaxMsgs + k

\* an "assistant" line with one tool_use block (claude: an ordinary tool or
\* ExitPlanMode) or "item.started" of a command (codex), up to the first await;
\* the tool message sent there is visible in its pending rendering
StdoutToolUse(p, kind) ==
    /\ emitting(p)
    /\ nextCall <= MaxCalls
    /\ input
    /\ kind = "plan" => proc[p].prov = "claude"
    /\ LET c == proc[p].chan
           k == nextCall
       IN call' = [call EXCEPT ![k] =
             IF hasChannel(c)
             THEN [NoCall EXCEPT !.proc = p, !.kind = kind, !.pc = "send",
                      !.msg = IF kind = "tool" THEN "pending" ELSE "none",
                      !.cap = IF proc[p].prov = "claude" THEN toolCallsOf(c, k) ELSE 0]
             ELSE [NoCall EXCEPT !.proc = p, !.kind = kind, !.pc = "done"]]
    /\ nextCall' = nextCall + 1
    /\ UNCHANGED <<handler, channelProcesses, channelMessages, channelToolCalls, session,
                   provider, dirExists, proc, posted, stdinWrites>>
    /\ UNCHANGED <<notAuthorized, framer, builder, aside>>

\* channel.send returned to the handler: the record is stored, and the claude
\* handler ends with db.setSession and channelToolCalls.set of the captured Map
ToolShown(k) ==
    /\ call[k].pc = "send" /\ call[k].kind = "tool"
    /\ LET p == call[k].proc
           c == proc[p].chan
           map == IF proc[p].prov = "claude" THEN call[k].cap ELSE toolCallsOf(c, k)
       IN /\ call' = [call EXCEPT ![k].pc = "done", ![k].rec = map]
          /\ channelToolCalls' = [channelToolCalls EXCEPT ![c] = map]
          /\ session' = IF proc[p].prov = "claude"
                        THEN [session EXCEPT ![c] = p]
                        ELSE session
    /\ UNCHANGED <<handler, channelProcesses, channelMessages, provider, dirExists, proc,
                   nextCall, posted, stdinWrites, inputs>>
    /\ UNCHANGED <<notAuthorized, framer, builder, aside>>

\* toolCalls.get(id) on the Map installed for the channel finds k's record
toolCallOf(c, k) == channelToolCalls[c] # 0 /\ call[k].rec = channelToolCalls[c]

\* a "user" line with the tool_result of k (claude) or "item.completed" of the
\* command k (codex): the lookup is made when the line is dispatched
StdoutToolResult(p, k, isError) ==
    /\ emitting(p)
    /\ call[k].proc = p /\ call[k].kind = "tool" /\ ~call[k].resulted
    /\ LET c == proc[p].chan
           found == toolCallOf(c, k) /\ (proc[p].prov = "codex" => hasChannel(c))
       IN call' = [call EXCEPT ![k].resulted = TRUE,
                               ![k].msg = IF found
                                          THEN (IF isError THEN "error" ELSE "done")
                                          ELSE @,
                               \* handleCodexCommandComplete sends the result as a
                               \* message of its own when it finds no record
                               ![k].standalone = /\ proc[p].prov = "codex"
                                                 /\ hasChannel(c)
                                                 /\ ~toolCallOf(c, k)]
    /\ UNCHANGED <<handler, channelProcesses, channelMessages, channelToolCalls, session,
                   provider, dirExists, proc, nextCall, posted, stdinWrites, inputs>>
    /\ UNCHANGED <<notAuthorized, framer, builder, aside>>

\* the continuation of handleResultMessage(...).then in the data handler
resultThen(procs, p) == [kill(procs, p) EXCEPT ![p].timer = "off", ![p].result = "sent"]

\* a data handler that awaits the handlers of the earlier lines of the run
StdoutResultWaits(p) ==
    /\ emitting(p)
    /\ \A k \in Calls : call[k].proc = p => call[k].pc = "done"
    /\ LET c == proc[p].chan IN
       /\ posted' = post(p, c)
       /\ IF proc[p].prov = "codex"
          THEN /\ proc' = [proc EXCEPT ![p].result = "sent"]
               /\ UNCHANGED <<session, channelProcesses>>
          ELSE /\ session' = [session EXCEPT ![c] = p]
               /\ IF hasChannel(c)
                  THEN /\ proc' = [proc EXCEPT ![p].result = "sending"]
                       /\ UNCHANGED channelProcesses
                  ELSE /\ proc' = resultThen(proc, p)
                       /\ channelProcesses' = [channelProcesses EXCEPT ![c] = NoEntry]
    /\ UNCHANGED <<handler, channelMessages, channelToolCalls, provider, dirExists, call,
                   nextCall, stdinWrites, inputs>>
    /\ UNCHANGED <<notAuthorized, framer, builder, aside>>

\* a "result" line (claude) or "turn.completed" (codex), up to the first await
StdoutResult(p) ==
    /\ emitting(p)
    /\ LET c == proc[p].chan IN
       /\ posted' = post(p, c)
       /\ IF proc[p].prov = "codex"
          THEN /\ proc' = [proc EXCEPT ![p].result = "sent"]
               /\ UNCHANGED <<session, channelProcesses>>
          ELSE /\ session' = [session EXCEPT ![c] = p]
               /\ IF hasChannel(c)
                  THEN /\ proc' = [proc EXCEPT ![p].result = "sending"]
                       /\ UNCHANGED channelProcesses
                  ELSE /\ proc' = resultThen(proc, p)
                       /\ channelProcesses' = [channelProcesses EXCEPT ![c] = NoEntry]
    /\ UNCHANGED <<handler, channelMessages, channelToolCalls, provider, dirExists, call,
                   nextCall, stdinWrites, inputs>>
    /\ UNCHANGED <<notAuthorized, framer, builder, aside>>

\* the result embed is sent: clearTimeout, kill, channelProcesses.delete
ResultSent(p) ==
    /\ proc[p].result = "sending"
    /\ proc' = resultThen(proc, p)
    /\ channelProcesses' = [channelProcesses EXCEPT ![proc[p].chan] = NoEntry]
    /\ UNCHANGED <<handler, channelMessages, channelToolCalls, session, provider,
                   dirExists, call, nextCall, posted, stdinWrites, inputs>>
    /\ UNCHANGED <<notAuthorized, framer, builder, aside>>

\* ---------------------------------------------------------------- plan review
\* the stdin property of the child process q: null for codex (stdio "ignore"),
\* for claude a stream object that was ended right after spawn and is
\* destroyed once the process has closed
stdinOf(q) ==
    IF proc[q].stdin = "null" THEN "null"
    ELSE IF proc[q].state = "running" THEN proc[q].stdin
    ELSE "closed"

\* sendToolResponse: the sequence of stdin writes after the call
sendToolResponse(c, k, result) ==
    LET entry == channelProcesses[c] IN
    IF entry.process <= 0 \/ stdinOf(entry.process) = "null"
    THEN stdinWrites
    ELSE Append(stdinWrites, [call |-> k, to |-> entry.process,
                              stdin |-> stdinOf(entry.process), result |-> result])

\* handleExitPlanMode: the review message is sent, awaitMessageComponent starts
PlanShown(k) ==
    /\ call[k].pc = "send" /\ call[k].kind = "plan"
    /\ call' = [call EXCEPT ![k].pc = "wait"]
    /\ UNCHANGED <<handler, channelProcesses, channelMessages, channelToolCalls, session,
                   provider, dirExists, proc, nextCall, posted, stdinWrites, inputs>>
    /\ UNCHANGED <<notAuthorized, framer, builder, aside>>

\* the members of a channel: the allowed user and anybody else
Users == {"allowed", "other"}

\* a press of Approve or Reject on the review message by user u; the collector
\* has no filter and takes the first press of any member, a press that
\* follows finds no collector
PlanButton(k, approve, u) ==
    /\ call[k].kind = "plan" /\ call[k].pc \in {"wait", "deciding"}
    /\ call' = IF call[k].pc = "wait"
               THEN [call EXCEPT ![k].pc = "deciding", ![k].resolved = @ + 1,
                                 ![k].decision = IF approve THEN "approve" ELSE "reject"]
               ELSE [call EXCEPT ![k].late = TRUE]
    /\ UNCHANGED <<handler, channelProcesses, channelMessages, channelToolCalls, session,
                   provider, dirExists, proc, nextCall, posted, stdinWrites, inputs>>
    /\ UNCHANGED <<notAuthorized, framer, builder, aside>>

\* a review wait that expires whether or not a decision was taken
PlanReviewLate(k) ==
    /\ call[k].kind = "plan" /\ call[k].pc \in {"wait", "deciding", "done"}
    /\ PlanReviewMs < ProcessTimeoutMs \/ proc[call[k].proc].timer # "pending"
    /\ call' = [call EXCEPT ![k].pc = "deciding", ![k].resolved = @ + 1,
                            ![k].decision = "timeout"]
    /\ UNCHANGED <<handler, channelProcesses, channelMessages, channelToolCalls, session,
                   provider, dirExists, proc, nextCall, posted, stdinWrites, inputs>>
    /\ UNCHANGED <<notAuthorized, framer, builder, aside>>

\* the review wait runs out.  It was started after the run timer of the same
\* process, so it expires first only if it is the shorter of the two.
PlanReviewTimeout(k) ==
    /\ call[k].kind = "plan" /\ call[k].pc = "wait"
    /\ PlanReviewMs < ProcessTimeoutMs \/ proc[call[k].proc].timer # "pending"
    /\ call' = [call EXCEPT ![k].pc = "deciding", ![k].resolved = @ + 1,
                            ![k].decision = "timeout"]
    /\ UNCHANGED <<handler, channelProcesses, channelMessages, channelToolCalls, session,
                   provider, dirExists, proc, nextCall, posted, stdinWrites, inputs>>
    /\ UNCHANGED <<notAuthorized, framer, builder, aside>>

\* the review message is edited and the decision is written back; then
\* handleAssistantMessage ends with db.setSession and channelToolCalls.set
PlanRespond(k) ==
    /\ call[k].kind = "plan" /\ call[k].pc = "deciding"
    /\ LET p == call[k].proc
           c == proc[p].chan
       IN /\ stdinWrites' = sendToolResponse(c, k, call[k].decision)
          /\ session' = [session EXCEPT ![c] = p]
          /\ channelToolCalls' = [channelToolCalls EXCEPT ![c] = call[k].cap]
    /\ call' = [call EXCEPT ![k].pc = "done"]
    /\ UNCHANGED <<handler, channelProcesses, channelMessages, provider, dirExists, proc,
                   nextCall, posted, inputs>>
    /\ UNCHANGED <<notAuthorized, framer, builder, aside>>

\* --------------------------------------------------------- permission manager
\* requestApproval: a pending approval keyed by the approval message
requestApproval(p) == [NoCall EXCEPT !.proc = p, !.kind = "perm", !.pc = "wait"]

\* handleApprovalReaction: resolves a pending approval, ignores any other
handleApprovalReaction(pending, approved) ==
    IF pending.pc = "wait"
    THEN [pending EXCEPT !.pc = "done", !.resolved = @ + 1,
                         !.decision = IF approved THEN "allow" ELSE "deny"]
    ELSE [pending EXCEPT !.late = TRUE]

\* the approval wait runs out: deny
expireApproval(pending) ==
    [pending EXCEPT !.pc = "done", !.resolved = @ + 1, !.decision = "expired"]

\* the catch block of the approve_tool handlers: the caller is answered at once
\* with behavior deny and the error message
errorDecision(p) ==
    [NoCall EXCEPT !.proc = p, !.kind = "perm", !.pc = "done", !.resolved = 1,
                   !.decision = "deny: request failed"]

\* an approve_tool handler that rethrows: the caller gets no decision
ApproveToolRethrows(p, throws) ==
    /\ emitting(p) /\ proc[p].prov = "claude"
    /\ nextCall <= MaxCalls
    /\ input
    /\ call' = [call EXCEPT ![nextCall] =
                   IF throws
                   THEN [NoCall EXCEPT !.proc = p, !.kind = "perm", !.pc = "done"]
                   ELSE requestApproval(p)]
    /\ nextCall' = nextCall + 1
    /\ UNCHANGED <<handler, channelProcesses, channelMessages, channelToolCalls, session,
                   provider, dirExists, proc, posted, stdinWrites>>
    /\ UNCHANGED <<notAuthorized, framer, builder, aside>>

\* the approve_tool request of a tool call of a running claude process (MCP
\* tool or POST /tool/approve_tool): requestApproval either throws (missing chat
\* context, chat-surface failure) or leaves the approval pending
ApproveTool(p, throws) ==
    /\ emitting(p) /\ proc[p].prov = "claude"
    /\ nextCall <= MaxCalls
    /\ input
    /\ call' = [call EXCEPT ![nextCall] =
                   IF throws THEN errorDecision(p) ELSE requestApproval(p)]
    /\ nextCall' = nextCall + 1
    /\ UNCHANGED <<handler, channelProcesses, channelMessages, channelToolCalls, session,
                   provider, dirExists, proc, posted, stdinWrites>>
    /\ UNCHANGED <<notAuthorized, framer, builder, aside>>

\* handleReactionAdd: a check or cross reaction of the authorised user
ReactionAdd(k, approved) ==
    /\ call[k].kind = "perm"
    /\ call' = [call EXCEPT ![k] = handleApprovalReaction(call[k], approved)]
    /\ UNCHANGED <<handler, channelProcesses, channelMessages, channelToolCalls, session,
                   provider, dirExists, proc, nextCall, posted, stdinWrites, inputs>>
    /\ UNCHANGED <<notAuthorized, framer, builder, aside>>

\* the timeout of a pending approval
ApprovalExpire(k) ==
    /\ call[k].kind = "perm" /\ call[k].pc = "wait"
    /\ call' = [call EXCEPT ![k] = expireApproval(call[k])]
    /\ UNCHANGED <<handler, channelProcesses, channelMessages, channelToolCalls, session,
                   provider, dirExists, proc, nextCall, posted, stdinWrites, inputs>>
    /\ UNCHANGED <<notAuthorized, framer, builder, aside>>

Next ==
    \/ \E m \in Msgs, c \in Channels : MessageCreate(m, c)
    \/ \E m \in Msgs, b \in BOOLEAN : FolderButton(m, b)
    \/ \E m \in Msgs : StatusSent(m)
    \/ \E m \in Msgs : StartRun(m)
    \/ \E c \in Channels : Stop(c)
    \/ \E c \in Channels : Clear(c)
    \/ \E c \in Channels, pr \in Providers : SetProvider(c, pr)
    \/ \E c \in Channels : RemoveDir(c)
    \/ \E p \in Msgs : TimerFire(p)
    \/ \E p \in Msgs, code \in ExitCodes \cup {NullCode} : ProcClose(p, code)
    \/ \E p \in Msgs : ProcError(p)
    \/ \E p \in Msgs : StdoutSystem(p)
    \/ \E p \in Msgs, kind \in {"tool", "plan"} : StdoutToolUse(p, kind)
    \/ \E k \in Calls : ToolShown(k)
    \/ \E p \in Msgs, k \in Calls, e \in BOOLEAN : StdoutToolResult(p, k, e)
    \/ \E p \in Msgs : StdoutResult(p)
    \/ \E p \in Msgs : ResultSent(p)
    \/ \E k \in Calls : PlanShown(k)
    \/ \E k \in Calls, b \in BOOLEAN, u \in Users : PlanButton(k, b, u)
    \/ \E k \in Calls : PlanReviewTimeout(k)
    \/ \E k \in Calls : PlanRespond(k)
    \/ \E p \in Msgs, throws \in BOOLEAN : ApproveTool(p, throws)
    \/ \E k \in Calls, b \in BOOLEAN : ReactionAdd(k, b)
    \/ \E k \in Calls : ApprovalExpire(k)
    \/ \E c \in Channels : MessageCreateOther(c)
    \/ \E c \in Channels : InteractionOther(c)
    \/ \E k \in Calls, b \in BOOLEAN : ReactionAddOther(k, b)

Spec == Init /\ [][Next]_vars
\* the liveness specification: timers fire, a process that was sent SIGTERM
\* closes, and the send of the result embed returns
Fairness ==
    \A p \in Msgs : /\ WF_vars(TimerFire(p))
                    /\ WF_vars(ProcClose(p, NullCode))
                    /\ WF_vars(ResultSent(p))

LiveSpec == Spec /\ Fairness

\* ------------------------------------------------------------- line framer
\* The stdout data handler of runClaudeCode / runCodex on its own: the bytes
\* of one process's output arrive in chunks of any size.  The output is valid
\* UTF-8: ASCII bytes, and the two-byte character U+00E9 (bytes C3 A9).  The
\* byte "{" stands for the text of one JSON record the dispatcher knows, the
\* byte "0" for a JSON value without the fields the dispatcher reads.
Bytes == {"{", "0", " ", "\n", "C3", "A9"}
Whitespace == {" ", "\n"}

wellFormed(bytes) ==
    \A i \in 1..Len(bytes) :
        /\ bytes[i] = "C3" => (i < Len(bytes) /\ bytes[i + 1] = "A9")
        /\ bytes[i] = "A9" => (i > 1 /\ bytes[i - 1] = "C3")

Outputs ==
    {bytes \in UNION {[1..n -> Bytes] : n \in 1..MaxOutput} : wellFormed(bytes)}

\* data.toString(): UTF-8 decoding of one chunk; a sequence cut by the end of
\* the chunk, and a continuation byte without its lead byte, decode to U+FFFD
RECURSIVE toString(_)
toString(data) ==
    IF data = <<>> THEN <<>>
    ELSE IF Head(data) = "C3"
         THEN IF Len(data) >= 2 /\ data[2] = "A9"
              THEN <<"U+00E9">> \o toString(SubSeq(data, 3, Len(data)))
              ELSE <<"U+FFFD">> \o toString(Tail(data))
    ELSE IF Head(data) = "A9" THEN <<"U+FFFD">> \o toString(Tail(data))
    ELSE <<Head(data)>> \o toString(Tail(data))

\* String.prototype.split("\n")
RECURSIVE split(_)
split(text) ==
    LET at == {i \in 1..Len(text) : text[i] = "\n"} IN
    IF at = {} THEN <<text>>
    ELSE LET i == CHOOSE j \in at : \A k \in at : j <= k
         IN <<SubSeq(text, 1, i - 1)>> \o split(SubSeq(text, i + 1, Len(text)))

\* String.prototype.trim()
trim(line) ==
    LET ink == {i \in 1..Len(line) : line[i] \notin Whitespace} IN
    IF ink = {} THEN <<>>
    ELSE SubSeq(line, CHOOSE i \in ink : \A k \in ink : i <= k,
                      CHOOSE i \in ink : \A k \in ink : i >= k)

nonBlank(line) == trim(line) # <<>>

\* the lines of a split but the last: what the loop sees after lines.pop()
popped(lines) == SubSeq(lines, 1, Len(lines) - 1)

\* JSON.parse(line) and the dispatch on parsed.type inside the try block: a
\* known record is handed to its handler, another JSON value matches no branch
\* or throws a TypeError, anything else throws a SyntaxError
JSONparse(line) ==
    IF trim(line) = <<"{">> THEN "record"
    ELSE IF trim(line) = <<"0">> THEN "no fields"
    ELSE "SyntaxError"

isRecord(line) == JSONparse(line) = "record"

\* the lines of a chunk up to and including the first one that is not a record
RECURSIVE untilThrow(_)
untilThrow(lines) ==
    IF lines = <<>> THEN <<>>
    ELSE IF isRecord(Head(lines)) THEN <<Head(lines)>> \o untilThrow(Tail(lines))
    ELSE <<Head(lines)>>

FramerInit ==
    /\ InitManager
    /\ output \in Outputs
    /\ unread = output
    /\ buffer = <<>>
    /\ dispatched = <<>>
    /\ streamClosed = FALSE
    /\ InitBuilder
    /\ InitAside

\* a data handler whose loop ends at the first line that throws
StdoutDataAborts(n) ==
    /\ ~streamClosed
    /\ n <= Len(unread)
    /\ LET rawData == toString(SubSeq(unread, 1, n))
           lines == split(buffer \o rawData)
       IN /\ buffer' = lines[Len(lines)]
          /\ dispatched' = dispatched \o untilThrow(SelectSeq(popped(lines), nonBlank))
    /\ unread' = SubSeq(unread, n + 1, Len(unread))
    /\ UNCHANGED <<output, streamClosed, manager, builder, aside>>

\* one "data" event delivering the next n bytes: every non-blank line goes
\* through its own try block
StdoutData(n) ==
    /\ ~streamClosed
    /\ n <= Len(unread)
    /\ LET rawData == toString(SubSeq(unread, 1, n))
           lines == split(buffer \o rawData)
       IN /\ buffer' = lines[Len(lines)]
          /\ dispatched' = dispatched \o SelectSeq(popped(lines), nonBlank)
    /\ unread' = SubSeq(unread, n + 1, Len(unread))
    /\ UNCHANGED <<output, streamClosed, manager, builder, aside>>

\* a close handler that hands the remainder of the buffer to the dispatcher
StdoutCloseFlushes ==
    /\ ~streamClosed
    /\ unread = <<>>
    /\ streamClosed' = TRUE
    /\ dispatched' = dispatched \o SelectSeq(<<buffer>>, nonBlank)
    /\ buffer' = <<>>
    /\ UNCHANGED <<output, unread, manager, builder, aside>>

\* the "close" event, after the last data event: the handler does not read buffer
StdoutClose ==
    /\ ~streamClosed
    /\ unread = <<>>
    /\ streamClosed' = TRUE
    /\ UNCHANGED <<output, unread, buffer, dispatched, manager, builder, aside>>

FramerNext ==
    \/ \E n \in 1..MaxOutput : StdoutData(n)
    \/ StdoutClose

FramerSpec == FramerInit /\ [][FramerNext]_vars

\* ---------------------------------------------------------------- builders
\* buildClaudeCommand and the stdin line of sendToolResponse on their own.
\* JSON text is a sequence of characters; a token such as "rejected:true"
\* stands for text without quotes, backslashes or newlines.
Chars == {"a", "\"", "\\", "\n"}
Feedbacks == UNION {[1..n -> Chars] : n \in 0..MaxFeedback}
ToolUseIds == {"toolu_1", "toolu_2"}
Modes == {"auto", "approve", "plan"}
SessionIds == 0..MaxMsgs

\* a string quoting that copies its argument unescaped
escapeRaw(str) == str

\* the escaping of JSON.stringify inside a string literal
RECURSIVE escape(_)
escape(str) ==
    IF str = <<>> THEN <<>>
    ELSE LET ch == Head(str) IN
         (IF ch = "\"" THEN <<"\\", "\"">>
          ELSE IF ch = "\\" THEN <<"\\", "\\">>
          ELSE IF ch = "\n" THEN <<"\\", "n">>
          ELSE <<ch>>) \o escape(Tail(str))

\* JSON.stringify of a string
quote(str) == <<"\"">> \o escape(str) \o <<"\"">>

\* the object handleExitPlanMode passes as result: {} on approve,
\* {rejected: true, feedback} on reject and on timeout
resultOf(req) ==
    IF req.rejected THEN [rejected |-> TRUE, feedback |-> req.feedback]
    ELSE [rejected |-> FALSE, feedback |-> <<>>]

\* JSON.stringify(result)
stringifyResult(result) ==
    IF result.rejected
    THEN <<"{", "rejected:true", ",", "feedback:">> \o quote(result.feedback) \o <<"}">>
    ELSE <<"{", "}">>

\* JSON.stringify(response) + "\n" of sendToolResponse
stringifyResponse(toolUseId, result) ==
    <<"{type:user,message:{role:user,content:[{type:tool_result,tool_use_id:", toolUseId,
      ",content:">> \o quote(stringifyResult(result)) \o <<",is_error:false", "}]}}", "\n">>

\* the index of the quote that closes the string literal opened before i
RECURSIVE closing(_, _)
closing(text, i) ==
    IF i > Len(text) THEN 0
    ELSE IF text[i] = "\\" THEN closing(text, i + 2)
    ELSE IF text[i] = "\"" THEN i
    ELSE closing(text, i + 1)

\* the characters an escaped string literal body stands for
RECURSIVE unescape(_)
unescape(body) ==
    IF body = <<>> THEN <<>>
    ELSE IF Head(body) = "\\" /\ Len(body) >= 2
         THEN <<IF body[2] = "n" THEN "\n" ELSE body[2]>> \o unescape(SubSeq(body, 3, Len(body)))
    ELSE <<Head(body)>> \o unescape(Tail(body))

SyntaxError == [error |-> "SyntaxError"]

\* JSON.parse of a stringified result
parseResult(text) ==
    IF text = <<"{", "}">> THEN [rejected |-> FALSE, feedback |-> <<>>]
    ELSE IF /\ Len(text) >= 7
            /\ SubSeq(text, 1, 5) = <<"{", "rejected:true", ",", "feedback:", "\"">>
            /\ closing(text, 6) = Len(text) - 1
            /\ text[Len(text)] = "}"
         THEN [rejected |-> TRUE, feedback |-> unescape(SubSeq(text, 6, Len(text) - 2))]
    ELSE SyntaxError

\* the provider's reading of one stdin line: JSON.parse of the text before the
\* newline, and the fields of its tool_result block
parseLine(line) ==
    LET end == closing(line, 5) IN
    IF /\ Len(line) >= 8
       /\ line[1] = "{type:user,message:{role:user,content:[{type:tool_result,tool_use_id:"
       /\ line[3] = ",content:" /\ line[4] = "\""
       /\ end # 0 /\ Len(line) = end + 3
       /\ line[end + 1] \in {",is_error:false", ",is_error:true"}
       /\ line[end + 2] = "}]}}" /\ line[end + 3] = "\n"
       /\ \A i \in 1..(Len(line) - 1) : line[i] # "\n"
    THEN [tool_use_id |-> line[2],
          content |-> unescape(SubSeq(line, 5, end - 1)),
          is_error |-> line[end + 1] = ",is_error:true"]
    ELSE SyntaxError

\* a command builder that skips permissions in every mode
modeFlagsSkipAll(mode) == <<"--dangerously-skip-permissions">>

\* buildClaudeCommand: the flags pushed for the permission mode
modeFlags(mode) ==
    IF mode = "plan"
    THEN <<"--permission-mode", "plan", "--mcp-config", "sessionMcpConfigPath",
           "--permission-prompt-tool", "mcp__discord-permissions__approve_tool",
           "--allowedTools", "mcp__discord-permissions">>
    ELSE IF mode = "approve"
    THEN <<"--mcp-config", "sessionMcpConfigPath",
           "--permission-prompt-tool", "mcp__discord-permissions__approve_tool",
           "--allowedTools", "mcp__discord-permissions">>
    ELSE <<"--dangerously-skip-permissions">>

\* buildClaudeCommand: the parts joined into the command string;
\* commandParts.splice(3, 0, "--resume", sessionId) inserts after "claude"
buildClaudeCommand(mode, sessionId) ==
    LET parts == <<"cd workingDir", "&&", "claude", "--output-format", "stream-json",
                   "--model", "model", "-p", "escapedPrompt", "--verbose">>
                 \o modeFlags(mode)
    IN SubSeq(parts, 1, 3) \o resumeArgs(sessionId) \o SubSeq(parts, 4, Len(parts))

\* the thread id codex reported to run sessionId, as it stands in a command
threadId(sessionId) == <<"thread-1", "thread-2", "thread-3", "thread-4">>[sessionId]

buildCodexCommand(sessionId) ==
    IF sessionId # 0
    THEN <<"codex", "exec", "resume", "--json",
           "--dangerously-bypass-approvals-and-sandbox",
           threadId(sessionId), "escapedPrompt">>
    ELSE <<"codex", "exec", "--json", "--dangerously-bypass-approvals-and-sandbox",
           "-C", "workingDir", "escapedPrompt">>

BuilderInit ==
    /\ InitManager
    /\ output = <<>> /\ unread = <<>> /\ buffer = <<>> /\ dispatched = <<>>
    /\ streamClosed = FALSE
    /\ request \in [toolUseId : ToolUseIds, rejected : BOOLEAN, feedback : Feedbacks,
                    mode : Modes, sessionId : SessionIds]
    /\ request.rejected \/ request.feedback = <<>>
    /\ commandParts = <<>>
    /\ jsonLine = <<>>
    /\ codexParts = <<>>
    /\ InitAside

\* sendToolResponse with a stdin to write to: the line written
WriteToolResponse ==
    /\ jsonLine = <<>>
    /\ jsonLine' = stringifyResponse(request.toolUseId, resultOf(request))
    /\ UNCHANGED <<request, commandParts, codexParts, manager, framer, aside>>

\* one call of buildClaudeCommand
BuildClaudeCommand ==
    /\ commandParts = <<>>
    /\ commandParts' = buildClaudeCommand(request.mode, request.sessionId)
    /\ UNCHANGED <<request, jsonLine, codexParts, manager, framer, aside>>

\* one call of buildCodexCommand
BuildCodexCommand ==
    /\ codexParts = <<>>
    /\ codexParts' = buildCodexCommand(request.sessionId)
    /\ UNCHANGED <<request, jsonLine, commandParts, manager, framer, aside>>

BuilderNext ==
    \/ WriteToolResponse
    \/ BuildClaudeCommand
    \/ BuildCodexCommand

BuilderSpec == BuilderInit /\ [][BuilderNext]_vars

\* ============================================================ shell quoting
\* the characters of a prompt: a letter, the single quote, the backslash, the
\* blank and the command separator
ShellChars == {"a", "'", "\\", " ", ";"}

Prompts == UNION {[1..n -> ShellChars] : n \in 0..MaxPrompt}

\* str.replace(/'/g, "'\\''")
RECURSIVE replaceQuotes(_)
replaceQuotes(str) ==
    IF str = <<>> THEN <<>>
    ELSE (IF Head(str) = "'" THEN <<"'", "\\", "'", "'">> ELSE <<Head(str)>>)
         \o replaceQuotes(Tail(str))

\* a quoting that wraps the string and leaves its single quotes alone
escapeShellStringBare(str) == <<"'">> \o str \o <<"'">>

escapeShellString(str) == <<"'">> \o replaceQuotes(str) \o <<"'">>

\* the command line handed to /bin/bash -c: a program name, the escaped prompt
\* and a flag that follows it
commandString(escaped) == <<"c", " ">> \o escaped \o <<" ", "v">>

word(text) == [kind |-> "word", text |-> text]
operator == [kind |-> "operator", text |-> <<";">>]
unterminated == [kind |-> "error", text |-> <<>>]

\* the tokens bash makes of a command line: outside quotes a blank ends a
\* word, ; is a control operator, a backslash quotes the next character and
\* a single quote opens a quoted stretch in which every character up to the
\* next single quote stands for itself.  open says that a word has begun.
RECURSIVE tokens(_, _, _, _, _)
tokens(rest, quoted, text, open, done) ==
    LET flushed == IF open THEN Append(done, word(text)) ELSE done IN
    IF rest = <<>>
    THEN IF quoted THEN Append(done, unterminated) ELSE flushed
    ELSE LET ch == Head(rest) IN
         IF quoted
         THEN IF ch = "'"
              THEN tokens(Tail(rest), FALSE, text, TRUE, done)
              ELSE tokens(Tail(rest), TRUE, Append(text, ch), TRUE, done)
         ELSE IF ch = "'" THEN tokens(Tail(rest), TRUE, text, TRUE, done)
         ELSE IF ch = "\\"
              THEN IF Tail(rest) = <<>>
                   THEN tokens(<<>>, FALSE, Append(text, ch), TRUE, done)
                   ELSE tokens(Tail(Tail(rest)), FALSE, Append(text, rest[2]), TRUE, done)
         ELSE IF ch = " " THEN tokens(Tail(rest), FALSE, <<>>, FALSE, flushed)
         ELSE IF ch = ";"
              THEN tokens(Tail(rest), FALSE, <<>>, FALSE, Append(flushed, operator))
         ELSE tokens(Tail(rest), FALSE, Append(text, ch), TRUE, done)

ShellInit ==
    /\ InitManager
    /\ output = <<>> /\ unread = <<>> /\ buffer = <<>> /\ dispatched = <<>>
    /\ streamClosed = FALSE
    /\ InitBuilder
    /\ prompt \in Prompts
    /\ escapedPrompt = <<>>
    /\ argv = <<>>
    /\ InitRelay
    /\ InitStore
    /\ InitAsking
    /\ InitBrowsing

\* buildClaudeCommand / buildCodexCommand: the prompt is escaped
EscapeShellString ==
    /\ escapedPrompt = <<>>
    /\ escapedPrompt' = escapeShellString(prompt)
    /\ UNCHANGED <<prompt, argv, manager, framer, builder, relay, store, asking, browsing>>

\* spawn("/bin/bash", ["-c", commandString]): bash splits the command line
BashSplits ==
    /\ escapedPrompt # <<>> /\ argv = <<>>
    /\ argv' = tokens(commandString(escapedPrompt), FALSE, <<>>, FALSE, <<>>)
    /\ UNCHANGED <<prompt, escapedPrompt, manager, framer, builder, relay, store, asking, browsing>>

ShellNext ==
    \/ EscapeShellString
    \/ BashSplits

ShellSpec == ShellInit /\ [][ShellNext]_vars

\* =========================================================== approval relay
\* The stdio-to-HTTP bridge between the CLI and the approval server, for one
\* input line.  A line is a sequence of pieces: an opening of a JSON-RPC
\* message or a blank.  A response body is a sequence of pieces: the
\* server-sent-event prefix, an allow or a deny decision, or a line feed.
LinePieces == {"{", " "}
InputLines == UNION {[1..n -> LinePieces] : n \in 0..MaxLine}

SsePrefix == "event: message\ndata: "
Allow == "{behavior: allow}"
Deny == "{behavior: deny}"
ResponsePieces == {SsePrefix, Allow, Deny, "\n"}
ResponseBodies == UNION {[1..n -> ResponsePieces] : n \in 0..MaxResponse}

\* the headers taken from the environment of the relay
DiscordHeaders == {"X-Discord-Channel-Id", "X-Discord-Channel-Name", "X-Discord-User-Id"}

\* jsonLine.trim() is empty
blank(line) == \A i \in 1..Len(line) : line[i] = " "

\* String.prototype.trim over response pieces: line feeds at both ends go
RECURSIVE trimStart(_)
trimStart(data) ==
    IF data # <<>> /\ Head(data) = "\n" THEN trimStart(Tail(data)) ELSE data

RECURSIVE trimEnd(_)
trimEnd(data) ==
    IF data # <<>> /\ data[Len(data)] = "\n"
    THEN trimEnd(SubSeq(data, 1, Len(data) - 1))
    ELSE data

\* res.on('end'): what the promise resolves to
resolved(data) ==
    IF data # <<>> /\ Head(data) = SsePrefix
    THEN trimEnd(trimStart(Tail(data)))
    ELSE data

\* the record written when the request failed
ConnectionFailed == <<"{error: {code: -32603, message: MCP server connection failed}}", "\n">>

\* a relay that denies when the server cannot be reached
failClosed == <<Deny, "\n">>

failureRecord == ConnectionFailed

RelayInit ==
    /\ InitManager
    /\ output = <<>> /\ unread = <<>> /\ buffer = <<>> /\ dispatched = <<>>
    /\ streamClosed = FALSE
    /\ InitBuilder
    /\ InitShell
    /\ relayLine \in InputLines
    /\ relayRequests = <<>>
    /\ relayResponse = NoResponse
    /\ relayStdout = <<>>
    /\ InitStore
    /\ InitAsking
    /\ InitBrowsing

\* rl.on('line') up to the await: a blank line resolves to '' at once and
\* nothing is written, any other line is posted as it is
RelayLine ==
    /\ relayResponse.state = "none"
    /\ IF blank(relayLine)
       THEN /\ relayResponse' = [state |-> "skipped", data |-> <<>>]
            /\ UNCHANGED relayRequests
       ELSE /\ relayResponse' = [state |-> "sent", data |-> <<>>]
            /\ relayRequests' = Append(relayRequests,
                                       [body |-> relayLine, headers |-> DiscordHeaders])
    /\ UNCHANGED <<relayLine, relayStdout, manager, framer, builder, shell, store, asking, browsing>>

\* the response has ended with body data: it is written if it is not empty
ResponseEnd(data) ==
    /\ relayResponse.state = "sent"
    /\ relayResponse' = [state |-> "end", data |-> data]
    /\ relayStdout' = IF resolved(data) # <<>>
                      THEN relayStdout \o resolved(data) \o <<"\n">>
                      ELSE relayStdout
    /\ UNCHANGED <<relayLine, relayRequests, manager, framer, builder, shell, store, asking, browsing>>

\* req.on('error'): the promise rejects and the catch writes the error record
RequestError ==
    /\ relayResponse.state = "sent"
    /\ relayResponse' = [state |-> "error", data |-> <<>>]
    /\ relayStdout' = relayStdout \o failureRecord
    /\ UNCHANGED <<relayLine, relayRequests, manager, framer, builder, shell, store, asking, browsing>>

RelayNext ==
    \/ RelayLine
    \/ \E data \in ResponseBodies : ResponseEnd(data)
    \/ RequestError

RelaySpec == RelayInit /\ [][RelayNext]_vars

\* ============================================================ settings store
\* DatabaseManager: five tables keyed by channel_id.  The clock counts in
\* units of thirty days.
Undefined == "undefined"

\* the values a table holds
Values(t) ==
    CASE t = "session" -> {"session-1", "session-2"}
      [] t = "mode" -> {"auto", "plan"}
      [] t = "model" -> {"sonnet", "opus"}
      [] t = "provider" -> Providers
      [] t = "path" -> {"dirA", "dirB"}

\* what a get returns when the channel has no row
Default(t) ==
    CASE t = "session" -> Undefined
      [] t = "mode" -> "auto"
      [] t = "model" -> "sonnet"
      [] t = "provider" -> "claude"
      [] t = "path" -> Undefined

\* INSERT OR IGNORE: a row of the same key stays as it is
insertOrIgnore(rows, row) ==
    IF \E r \in rows : r.channel_id = row.channel_id THEN rows ELSE rows \cup {row}

\* INSERT OR REPLACE under PRIMARY KEY channel_id
insertOrReplace(rows, row) ==
    {r \in rows : r.channel_id # row.channel_id} \cup {row}

\* DELETE ... WHERE channel_id = ?
deleteWhere(rows, c) == {r \in rows : r.channel_id # c}

\* SELECT ... WHERE channel_id = ? and the default of the getter
get(t, c) ==
    LET result == {r \in db[t] : r.channel_id = c} IN
    IF result = {} THEN Default(t) ELSE (CHOOSE r \in result : TRUE).value

write == Len(dbLog) < MaxWrites

\* setSession, setMode, setModel, setProvider, setPath; last_used is kept
\* for sessions only
DbSet(t, c, v) ==
    /\ write
    /\ db' = [db EXCEPT ![t] = insertOrReplace(@,
                 [channel_id |-> c, value |-> v,
                  last_used |-> IF t = "session" THEN dbNow ELSE 0])]
    /\ dbLog' = Append(dbLog, [op |-> "set", table |-> t, channel_id |-> c,
                               value |-> v, at |-> dbNow])
    /\ UNCHANGED <<dbNow, dbRead, manager, framer, builder, shell, relay, asking, browsing>>

\* clearSession, clearPath
DbClear(t, c) ==
    /\ write
    /\ t \in {"session", "path"}
    /\ db' = [db EXCEPT ![t] = deleteWhere(@, c)]
    /\ dbLog' = Append(dbLog, [op |-> "clear", table |-> t, channel_id |-> c,
                               value |-> Undefined, at |-> dbNow])
    /\ UNCHANGED <<dbNow, dbRead, manager, framer, builder, shell, relay, asking, browsing>>

\* getSession, getMode, getModel, getProvider, getPath
DbGet(t, c) ==
    /\ dbRead' = [table |-> t, channel_id |-> c, value |-> get(t, c), at |-> Len(dbLog)]
    /\ UNCHANGED <<db, dbLog, dbNow, manager, framer, builder, shell, relay, asking, browsing>>

\* cleanupOldSessions, called when the manager is constructed
CleanupOldSessions ==
    /\ write
    /\ db' = [db EXCEPT !["session"] = {r \in @ : ~(r.last_used < dbNow - ThirtyDays)}]
    /\ dbLog' = Append(dbLog, [op |-> "cleanup", table |-> "session", channel_id |-> 0,
                               value |-> Undefined, at |-> dbNow])
    /\ UNCHANGED <<dbNow, dbRead, manager, framer, builder, shell, relay, asking, browsing>>

\* thirty days pass
ClockTick ==
    /\ dbNow < MaxClock
    /\ dbNow' = dbNow + 1
    /\ UNCHANGED <<db, dbLog, dbRead, manager, framer, builder, shell, relay, asking, browsing>>

StoreNext ==
    \/ \E t \in Tables, c \in Channels : \E v \in Values(t) : DbSet(t, c, v)
    \/ \E t \in Tables, c \in Channels : DbClear(t, c)
    \/ \E t \in Tables, c \in Channels : DbGet(t, c)
    \/ CleanupOldSessions
    \/ ClockTick

StoreSpec == Init /\ [][StoreNext]_vars

\* ========================================================= question handler
\* handleAskUserQuestion for one request: the questions are shown one after
\* the other, each waits for a button and, after "Other...", for a typed
\* message.
Labels == {"yes", "no"}
TypedTexts == {"typed"}
TimedOut == "No response (timed out)"
NoTyped == "No response"

Questions == UNION {[1..n -> QuestionTexts] : n \in 0..MaxQuestions}

AskInit ==
    /\ InitManager
    /\ output = <<>> /\ unread = <<>> /\ buffer = <<>> /\ dispatched = <<>>
    /\ streamClosed = FALSE
    /\ InitBuilder
    /\ InitShell /\ InitRelay /\ InitStore /\ InitBrowsing
    /\ askQuestions \in Questions
    /\ askIndex = 0 /\ askStage = "idle"
    /\ askAnswers = NoAnswers /\ askEvents = <<>> /\ askReplies = <<>>

\* collected.first()?.content || "No response" with an empty collection
noTyped == NoTyped

\* the handler goes on after question askIndex got answer a by way of outcome:
\* the next question is sent, or the loop ends and the reply is sent
answered(a, outcome) ==
    LET q == askQuestions[askIndex]
        answers == [askAnswers EXCEPT ![q] = a]
    IN /\ askAnswers' = answers
       /\ askEvents' = Append(askEvents, [question |-> q, outcome |-> outcome, value |-> a])
       /\ IF askIndex < Len(askQuestions)
          THEN /\ askIndex' = askIndex + 1
               /\ askStage' = "button"
               /\ UNCHANGED askReplies
          ELSE /\ askIndex' = askIndex
               /\ askStage' = "done"
               /\ askReplies' = Append(askReplies, answers)
    /\ UNCHANGED <<askQuestions, manager, framer, builder, shell, relay, store, browsing>>

\* the handler starts: no questions, the empty reply at once; else the first
\* question is sent
AskStart ==
    /\ askStage = "idle"
    /\ IF askQuestions = <<>>
       THEN /\ askStage' = "done"
            /\ askReplies' = Append(askReplies, NoAnswers)
            /\ UNCHANGED askIndex
       ELSE /\ askStage' = "button"
            /\ askIndex' = 1
            /\ UNCHANGED askReplies
    /\ UNCHANGED <<askQuestions, askAnswers, askEvents, manager, framer, builder,
                   shell, relay, store, browsing>>

\* an option button is pressed
OptionPressed(label) ==
    /\ askStage = "button"
    /\ answered(label, "option")

\* the "Other..." button is pressed: the handler asks for a typed message
OtherPressed ==
    /\ askStage = "button"
    /\ askStage' = "text"
    /\ UNCHANGED <<askQuestions, askIndex, askAnswers, askEvents, askReplies,
                   manager, framer, builder, shell, relay, store, browsing>>

\* awaitMessageComponent rejects after 60 s: the catch block
ButtonWaitElapses ==
    /\ askStage = "button"
    /\ answered(TimedOut, "elapsed")

\* the message typed after "Other..."
TextTyped(text) ==
    /\ askStage = "text"
    /\ answered(text, "typed")

\* awaitMessages resolves with an empty collection after 60 s
TextWaitElapses ==
    /\ askStage = "text"
    /\ answered(noTyped, "elapsed")

AskNext ==
    \/ AskStart
    \/ \E label \in Labels : OptionPressed(label)
    \/ OtherPressed
    \/ ButtonWaitElapses
    \/ \E text \in TypedTexts : TextTyped(text)
    \/ TextWaitElapses

AskSpec == AskInit /\ [][AskNext]_vars

\* ============================================================ /ls and /cat
\* A path is a sequence of segments, a segment a sequence of characters.  The
\* project folder is /b/p; p2 is a folder beside it whose name begins with
\* the project's name.
Up == <<".", ".">>
SegmentNames == {Up, <<"p">>, <<"p", "2">>, <<"s">>}
RelativePaths == UNION {[1..n -> SegmentNames] : n \in 0..MaxSegments}

\* getProjectPath: path.join(baseFolder, channelName), which exists
projectPath == <<<<"b">>, <<"p">>>>

\* path.join / path.normalize on segments: .. removes the segment before it,
\* at the root it goes nowhere
RECURSIVE normalize(_, _)
normalize(done, rest) ==
    IF rest = <<>> THEN done
    ELSE IF Head(rest) = Up
         THEN normalize(IF done = <<>> THEN <<>> ELSE SubSeq(done, 1, Len(done) - 1),
                        Tail(rest))
         ELSE normalize(Append(done, Head(rest)), Tail(rest))

join(base, relative) == normalize(<<>>, base \o relative)

\* the string of an absolute path
RECURSIVE pathString(_)
pathString(segments) ==
    IF segments = <<>> THEN <<>>
    ELSE <<"/">> \o Head(segments) \o pathString(Tail(segments))

\* String.prototype.startsWith
startsWith(str, prefix) ==
    Len(prefix) <= Len(str) /\ SubSeq(str, 1, Len(prefix)) = prefix

\* the security check of /ls and /cat
passesCheck(targetPath) == startsWith(pathString(targetPath), pathString(projectPath))

PathInit ==
    /\ InitManager
    /\ output = <<>> /\ unread = <<>> /\ buffer = <<>> /\ dispatched = <<>>
    /\ streamClosed = FALSE
    /\ InitBuilder
    /\ InitShell /\ InitRelay /\ InitStore /\ InitAsking
    /\ pathRequest \in [command : {"ls", "cat"}, path : RelativePaths]
    /\ pathReply = "none"
    /\ pathRead = <<>>

\* the command from the security check on: exists is fs.existsSync(targetPath)
access(command, exists) ==
    /\ pathRequest.command = command /\ pathReply = "none"
    /\ LET targetPath == join(projectPath, pathRequest.path) IN
       IF ~passesCheck(targetPath)
       THEN pathReply' = "Cannot access outside the project folder" /\ UNCHANGED pathRead
       ELSE IF ~exists
       THEN pathReply' = "not found" /\ UNCHANGED pathRead
       ELSE pathReply' = "content" /\ pathRead' = pathString(targetPath)
    /\ UNCHANGED <<pathRequest, manager, framer, builder, shell, relay, store, asking>>

\* /ls
Ls(exists) == access("ls", exists)

\* /cat
Cat(exists) == access("cat", exists)

PathNext ==
    \/ \E exists \in BOOLEAN : Ls(exists)
    \/ \E exists \in BOOLEAN : Cat(exists)

PathSpec == PathInit /\ [][PathNext]_vars

\* =================================================================== claims
\* the processes of channel c that were spawned and have not closed
liveProcesses(c) == {p \in Msgs : proc[p].state = "running" /\ proc[p].chan = c}

\* the number of stdin writes that answer invocation k
writesOf(writes, k) == Cardinality({i \in DOMAIN writes : writes[i].call = k})

\* C1: in every reachable state each channel has at most one provider process
\* that has been spawned and has not yet closed.
C1_OneLiveProcessPerChannel ==
    \A c \in Channels : Cardinality(liveProcesses(c)) <= 1

\* C2: a message that passed the busy check starts its run only on a channel
\* that is still not busy, so two messages of one channel never both pass the
\* check and both start a run.
C2_CheckAndReserveAtomic ==
    [][\A m \in Msgs :
          (handler[m].pc = "attach" /\ handler'[m].pc = "started")
             => ~hasActiveProcess(handler[m].chan)]_vars

\* C3: the handling of the tool_result line of invocation X observes the record
\* that the earlier tool_use line of X created: once the result line is
\* handled, the tool message of X is no longer in its pending rendering.
C3_ResultObservesRecord ==
    \A k \in Calls :
        (call[k].kind = "tool" /\ call[k].resulted) => call[k].msg # "pending"

\* C4: every pending approval (plan review, permission request) is resolved at
\* most once, at most one decision per invocation is written to the provider,
\* and once resolved no later decision or timeout changes the decision.
C4_ResolvedExactlyOnce ==
    [][\A k \in Calls :
          /\ call'[k].resolved <= 1
          /\ writesOf(stdinWrites', k) <= 1
          /\ call[k].resolved = 1 =>
                /\ call'[k].resolved = 1
                /\ call'[k].decision = call[k].decision
                /\ writesOf(stdinWrites', k) >= writesOf(stdinWrites, k)]_vars

\* C4 witness: an approval was resolved and a later decision was ignored
C4_LateDecisionIgnored ==
    \E k \in Calls : call[k].resolved = 1 /\ call[k].late

\* C5: a started run whose channel is idle again has exactly one terminal
\* notification.
C5_ExactlyOneTerminalNotification ==
    \A m \in Msgs :
        ( /\ handler[m].pc \in {"started", "failed"}
          /\ handler[m].pc = "started" => proc[m].state \in {"closed", "errored"}
          /\ ~hasActiveProcess(handler[m].chan) )
        => posted[m].n = 1

\* C6: under fairness every channel that is busy eventually becomes idle.
C6_BusyLeadsToIdle ==
    \A c \in Channels : hasActiveProcess(c) ~> ~hasActiveProcess(c)

\* C6 witness: a run that was sent SIGTERM by its timer has closed and its
\* channel is idle
C6_IdleAfterTimeout ==
    \E p \in Msgs : /\ proc[p].state = "closed"
                    /\ proc[p].result = "none"
                    /\ posted[p].n = 1 /\ posted[p].code = NullCode
                    /\ ~hasActiveProcess(proc[p].chan)

\* C7: sendToolResponse writes a tool result only to a stdin that is open.
C7_WritesOnlyToOpenStdin ==
    \A i \in DOMAIN stdinWrites : stdinWrites[i].stdin = "open"

\* C8: when the plan review times out, the provider process of that run is
\* still running and receives the timed-out rejection: the rejection has been
\* written to the open stdin of the process that asked.
C8_TimedOutDenyDelivered ==
    \A k \in Calls :
        (call[k].kind = "plan" /\ call[k].decision = "timeout" /\ call[k].pc = "done")
        => \E i \in DOMAIN stdinWrites :
              /\ stdinWrites[i].call = k
              /\ stdinWrites[i].to = call[k].proc
              /\ stdinWrites[i].stdin = "open"

\* C9: a failure notification with the exit code is posted only for a run of
\* which no result line was observed before its process closed.
C9_NoFailureAfterResult ==
    \A p \in Msgs : posted[p].code # NullCode => proc[p].result = "none"

\* the provider p wrote tool-invocation lines and no result line, and the
\* message of one of its tool calls is pending with no result received
failedMidRun(p) ==
    /\ proc[p].result = "none"
    /\ \E k \in Calls : /\ call[k].proc = p /\ call[k].kind = "tool"
                        /\ call[k].msg = "pending" /\ ~call[k].resulted

\* what the close handler leaves behind in the scenario of C10
failureSurfaced(p, code) ==
    /\ channelProcesses'[proc[p].chan] = NoEntry
    /\ posted'[p] = [n |-> posted[p].n + 1, code |-> code]
    /\ \A k \in Calls : call'[k].msg = call[k].msg

reserves(m) == handler[m].pc = "attach" /\ handler'[m].pc = "started"

\* C11: when a channel that holds the process of a first reservation is reserved
\* a second time, the registry then holds the one entry of the second
\* reservation, SIGTERM has been sent to the first reservation's process, and
\* no other process has been signalled.
C11_SecondReserveKillsFirst ==
    [][\A m \in Msgs :
          (reserves(m) /\ hasActiveProcess(handler[m].chan)) =>
             LET c == handler[m].chan
                 first == channelProcesses[c].process
             IN /\ channelProcesses'[c] = [process |-> m]
                /\ proc'[first].state = "running" /\ proc'[first].sigterm
                /\ proc'[m].state = "running" /\ ~proc'[m].sigterm
                /\ \A q \in Msgs \ {first, m} : proc'[q] = proc[q]]_vars

\* C11 witness: two messages were the only inputs, both reserved channel c; the
\* first process has been sent SIGTERM and the entry is the second's
C11_ReservedTwice ==
    \E m1, m2 \in Msgs :
        /\ m1 # m2 /\ inputs = 2
        /\ handler[m1].pc = "started" /\ handler[m2].pc = "started"
        /\ handler[m1].chan = handler[m2].chan
        /\ proc[m1].state = "running" /\ proc[m1].sigterm /\ proc[m1].timer = "pending"
        /\ channelProcesses[handler[m2].chan] = [process |-> m2]
        /\ ~proc[m2].sigterm
\* the run timer of p expires in this step: it was pending and is off, and
\* neither the close or error handler nor the result continuation cancelled it
timerFires(p) ==
    /\ proc[p].timer = "pending" /\ proc'[p].timer = "off"
    /\ proc'[p].state = "running"
    /\ proc'[p].result = proc[p].result

\* a run has one timer: once armed it is never armed again
timerArmedOnce(p) ==
    proc'[p].timer = "pending" => proc[p].timer \in {"none", "pending"}

finished(p) == proc[p].state \in {"closed", "errored"}

\* C13: once the process of a run has closed or raised a process error, the
\* run's timer is cancelled and never fires: from then on no SIGTERM and no
\* notification is issued on behalf of that run.
C13_NoTimeoutAfterFinish ==
    [][\A p \in Msgs :
          /\ proc'[p].state \in {"closed", "errored"} => proc'[p].timer = "off"
          /\ finished(p) => /\ proc'[p].state = proc[p].state
                            /\ ~proc'[p].sigterm
                            /\ posted'[p] = posted[p]]_vars

\* C13 witness: run p has closed with its timer cancelled while a newer run q
\* is registered and running on the same channel
C13_FinishedBesideNewerRun ==
    \E p, q \in Msgs :
        /\ p < q /\ proc[p].chan = proc[q].chan
        /\ proc[p].state = "closed" /\ proc[p].timer = "off"
        /\ proc[q].state = "running" /\ proc[q].timer = "pending"
        /\ channelProcesses[proc[q].chan] = [process |-> q]
\* C14: killActiveProcess only sends SIGTERM to the channel's process: on a
\* channel without an entry it changes nothing, and a /stop step leaves the
\* registry entry (hasActiveProcess stays true), the status-message handle, the
\* tool-call table and the stored session id as they were, and signals no
\* process other than the one registered for the channel.
C14_KillOnlySignals ==
    /\ [](\A c \in Channels : ~hasActiveProcess(c) => killActiveProcess(proc, c) = proc)
    /\ [][\A c \in Channels :
             Stop(c) =>
                /\ UNCHANGED <<channelProcesses, channelMessages, channelToolCalls, session>>
                /\ hasActiveProcess(c)
                /\ proc' = [proc EXCEPT ![channelProcesses[c].process].sigterm = TRUE]]_vars

\* C14 witness: after one message and one /stop the process has been sent
\* SIGTERM, has not closed, and its channel is still registered as busy
C14_StoppedStillRegistered ==
    \E p \in Msgs :
        /\ inputs = 2 /\ \A m \in Msgs \ {p} : handler[m].pc = "new"
        /\ proc[p].state = "running" /\ proc[p].sigterm /\ proc[p].timer = "pending"
        /\ channelProcesses[proc[p].chan] = [process |-> p]
        /\ channelMessages[proc[p].chan] = p
\* C15: when the working directory does not exist at the moment runClaudeCode
\* is called, under either provider, the call rejects (the handler ends in its
\* catch block) and no child is spawned and no timer started for that run,
\* then or later.
C15_MissingDirRejects ==
    /\ [](\A m \in Msgs : handler[m].pc = "failed" => proc[m] = NoProc)
    /\ [][\A m \in Msgs :
             (handler[m].pc = "attach" /\ handler'[m].pc # "attach"
                 /\ ~dirExists[handler[m].chan]) =>
                /\ handler'[m].pc = "failed"
                /\ proc'[m] = NoProc]_vars

\* C15 witness: a codex run was rejected for its missing directory
C15_RejectedRun ==
    \E m \in Msgs :
        /\ handler[m].pc = "failed" /\ ~dirExists[handler[m].chan]
        /\ provider[handler[m].chan] = "codex"
        /\ proc[m].state = "none" /\ proc[m].timer = "none"
\* C16: the stored continuation id of a channel is deleted only by an explicit
\* reset command (/clear, or the provider switch that resets the session); a
\* run that completes, fails to start, exits non-zero or times out leaves the
\* stored id as it is.
C16_IdDeletedOnlyByReset ==
    [][\A c \in Channels :
          (session[c] # 0 /\ session'[c] = 0) =>
             \/ Clear(c)
             \/ \E pr \in Providers : SetProvider(c, pr)]_vars
\* run p is the only prompt channel c has received so far
aloneOn(p, c) == handler[p].chan = c /\ \A q \in Msgs \ {p} : handler[q].chan # c

\* run p is alive and has not reported its result, yet its channel c has no
\* registry entry: with p the only run of the channel, clearSession was called
\* while p was running
clearedUnder(p, c) ==
    /\ emitting(p) /\ proc[p].chan = c /\ aloneOn(p, c)
    /\ channelProcesses[c] = NoEntry

\* C17: after clearSession(channel) the channel has no registry entry and no
\* stored session id, and both stay so until a run started after the clear
\* reports a session id: while the killed run is the only run of the channel,
\* no step it takes restores the stored id or the registry entry.
C17_ClearedStaysCleared ==
    [][\A p \in Msgs, c \in Channels :
          (clearedUnder(p, c) /\ session[c] = 0 /\ aloneOn(p, c)') =>
              (session'[c] = 0 /\ ~hasActiveProcess(c)')]_vars

\* the spawn step of prompt m: the command line is built from the session id
\* the handler read at intake
spawns(m) == reserves(m)
spawnArgs(m) == resumeArgs(handler[m].sid)

\* C18: a prompt accepted after a run reported a continuation id and finished
\* is spawned with a resume argument equal to the id stored on the channel at
\* that moment, and a channel with no stored id is spawned without any resume
\* argument.
C18_ResumesStoredId ==
    [][\A m \in Msgs :
          spawns(m) =>
             LET stored == session[handler[m].chan] IN
             /\ (handler[m].sid # 0 /\ stored # 0) => spawnArgs(m) = <<"--resume", stored>>
             /\ stored = 0 => spawnArgs(m) = <<>>]_vars
\* message m arrives on its channel
arrives(m) == handler[m].pc = "new" /\ handler'[m].pc # "new"

\* C19: a message that arrives while its channel is busy is dropped, not
\* queued: its arrival changes nothing but the handler's own position, and it
\* never gets a status message, a registry entry or a process, at arrival or
\* after the current run has ended.
C19_BusyMessageDropped ==
    /\ [][\A m \in Msgs :
             /\ (arrives(m) /\ hasActiveProcess(handler'[m].chan)) =>
                   /\ handler'[m].pc = "dropped"
                   /\ UNCHANGED <<channelProcesses, channelMessages, channelToolCalls,
                                  session, proc, call, posted, stdinWrites>>
             /\ handler[m].pc = "dropped" => handler'[m] = handler[m]]_vars
    /\ [](\A m \in Msgs :
             handler[m].pc = "dropped" =>
                /\ proc[m] = NoProc /\ posted[m] = NoNotes
                /\ channelMessages[handler[m].chan] # m
                /\ channelProcesses[handler[m].chan] # [process |-> m])

\* C19 witness: the run that was current when message 2 was dropped has closed,
\* the channel is idle, and message 2 has still not been started
C19_DroppedAfterRunEnded ==
    /\ handler[2].pc = "dropped" /\ handler[2].chan = 1
    /\ proc[1].state = "closed" /\ proc[1].chan = 1
    /\ ~hasActiveProcess(1)
    /\ proc[2] = NoProc /\ posted[2] = NoNotes
\* C20: however the full stdout output is split into chunks, the line framer
\* dispatches the same ordered sequence of complete non-blank lines: the one
\* it dispatches when the whole output arrives as a single chunk.
C20_ChunkBoundaryIndependent ==
    unread = <<>> =>
        dispatched = SelectSeq(popped(split(toString(output))), nonBlank)
\* the complete non-blank lines of the output decoded as a whole
completeLines == SelectSeq(popped(split(toString(output))), nonBlank)

\* C21: when the stream closes, the text after the last newline is never
\* dispatched: the close hands no line to the dispatcher, so exactly the
\* newline-terminated non-blank lines have been dispatched and the remainder
\* stays in the buffer.
C21_RemainderDiscarded ==
    /\ [](streamClosed => Len(dispatched) = Len(completeLines))
    /\ [][streamClosed' => (dispatched' = dispatched /\ buffer' = buffer)]_vars

\* C21 witness: the stream closed after one complete line, with an unterminated
\* non-blank record left in the buffer
C21_ClosedMidLine ==
    streamClosed /\ nonBlank(buffer) /\ Len(dispatched) = 1
resultHandled(k) == ~call[k].resulted /\ call'[k].resulted

\* C23: a tool result whose invocation id has no record in the channel's
\* correlation table is rendered as a status message of its own, under both
\* providers.
C23_OrphanResultStandalone ==
    [][\A k \in Calls :
          (resultHandled(k) /\ ~toolCallOf(proc[call[k].proc].chan, k))
             => call'[k].standalone]_vars
\* the run of invocation k is the registered run of its channel
withinRun(k) ==
    channelProcesses[proc[call[k].proc].chan] = [process |-> call[k].proc]

\* C24: within a run, a tool result handled after its invocation was recorded
\* edits the status message created for that invocation (it leaves the pending
\* rendering) and creates no new message, and the record of an invocation,
\* once stored, is never replaced.
C24_ResultEditsItsMessage ==
    [][\A k \in Calls :
          /\ (resultHandled(k) /\ call[k].rec # 0 /\ withinRun(k)) =>
                (call'[k].msg \in {"done", "error"} /\ ~call'[k].standalone)
          /\ call[k].rec # 0 => call'[k].rec = call[k].rec]_vars
\* the handler of invocation k has a chat-surface call or an approval wait pending
handlerPending(k) == call[k].pc \in {"send", "wait", "deciding"}

\* C25: consumption of stdout never waits for a chat-surface call started by an
\* earlier line: while the handler of an earlier line of a run has its send,
\* edit or approval wait pending, the next line of that run can be dispatched.
C25_DispatchNeverWaits ==
    \A k \in Calls :
        (handlerPending(k) /\ emitting(call[k].proc)) => ENABLED StdoutResult(call[k].proc)

\* C25 witness: the result line of a run was dispatched while the plan review
\* of an earlier line of that run is still waiting for its button press
C25_ResultDuringApprovalWait ==
    \E k \in Calls :
        /\ call[k].pc = "wait" /\ call[k].kind = "plan"
        /\ proc[call[k].proc].state = "running"
        /\ proc[call[k].proc].result # "none"
\* C26: the line written to stdin for a decision is one newline-terminated JSON
\* object of the tool_result shape whose tool_use_id is the invocation id being
\* answered, whose is_error is false, and whose content, decoded as JSON, is
\* the decision supplied: re-parsing the line gives back the same content.
C26_StdinLineRoundTrip ==
    jsonLine # <<>> =>
        LET parsed == parseLine(jsonLine) IN
        /\ parsed # SyntaxError
        /\ parsed.tool_use_id = request.toolUseId
        /\ parsed.is_error = FALSE
        /\ parsed.content = stringifyResult(resultOf(request))
        /\ parseResult(parsed.content) = resultOf(request)

\* C26 witness: the line of a rejection whose feedback holds a quote and a newline
C26_RejectionWithQuoteAndNewline ==
    /\ jsonLine # <<>>
    /\ request.rejected /\ request.feedback = <<"\"", "\n">>
    /\ parseResult(parseLine(jsonLine).content).feedback = <<"\"", "\n">>
\* the command resumes a session: "--resume" follows "claude"
resumed(parts) == parts[4] = "--resume"

\* the parts of a command line but the session id that follows "--resume"
words(parts) ==
    {parts[i] : i \in (1..Len(parts)) \ (IF resumed(parts) THEN {5} ELSE {})}

\* flag is followed by value in the command line
followedBy(parts, flag, value) ==
    \E i \in 1..(Len(parts) - 1) :
        /\ ~(resumed(parts) /\ i \in {4, 5})
        /\ parts[i] = flag /\ parts[i + 1] = value

promptToolFlags(parts) ==
    /\ "--mcp-config" \in words(parts)
    /\ followedBy(parts, "--permission-prompt-tool", "mcp__discord-permissions__approve_tool")
    /\ followedBy(parts, "--allowedTools", "mcp__discord-permissions")

requestFailed(k) ==
    call[k] = NoCall /\ call'[k].kind = "perm" /\ call'[k].pc # "wait"

\* C27: when handling a per-tool approval request throws, the caller receives a
\* deny decision with a message: it is answered exactly once, at once, and the
\* answer is never allow.
C27_FailedRequestDenied ==
    [][\A k \in Calls :
          requestFailed(k) =>
             /\ call'[k].decision = "deny: request failed"
             /\ call'[k].resolved = 1]_vars

\* C27 witness: a request that threw was answered deny while its run goes on
C27_DeniedOnError ==
    \E k \in Calls :
        /\ call[k].kind = "perm" /\ call[k].decision = "deny: request failed"
        /\ call[k].resolved = 1 /\ call[k].pc = "done"
        /\ proc[call[k].proc].state = "running"

C29_OnlyAllowedUserDecides ==
    [][\A k \in Calls, b \in BOOLEAN :
         PlanButton(k, b, "other") =>
             /\ call'[k].decision = call[k].decision
             /\ call'[k].resolved = call[k].resolved
             /\ call'[k].pc = call[k].pc]_vars

\* C31: every command built for either provider, with or without a session
\* id, makes the provider run in the channel's working directory: the claude
\* command starts with cd <workingDir> &&, the codex command carries
\* -C <workingDir>.
C31_RunsInWorkingDir ==
    /\ commandParts # <<>> =>
          commandParts[1] = "cd workingDir" /\ commandParts[2] = "&&"
    /\ codexParts # <<>> =>
          \E i \in 1..(Len(codexParts) - 1) :
              codexParts[i] = "-C" /\ codexParts[i + 1] = "workingDir"

\* C32: escapeShellString(s) is one single-quoted shell word that the shell
\* expands back to exactly s, for every s including the empty string and
\* strings of single quotes only: in the command line the prompt is one
\* argument between the program and the flag that follows, with no further
\* word and no control operator.
C32_OneWordExpandsBack ==
    /\ escapedPrompt # <<>> =>
          Head(escapedPrompt) = "'" /\ escapedPrompt[Len(escapedPrompt)] = "'"
    /\ argv # <<>> =>
          argv = <<word(<<"c">>), word(prompt), word(<<"v">>)>>

\* a prompt of a quote, a separator and a quote has gone through bash
C32_QuotesAroundSeparator ==
    /\ prompt = <<"'", ";", "'">>
    /\ argv # <<>>

\* what the bot keeps for channel c: registry entry, status-message handle,
\* tool-call table, stored session id, and the processes (with their timers)
\* spawned for the channel
channelState(c) ==
    <<channelProcesses[c], channelMessages[c], channelToolCalls[c], session[c],
      [p \in Msgs |-> IF proc[p].chan = c THEN proc[p] ELSE NoProc]>>

\* the step is an operation of channel c: intake, reservation and run of a
\* prompt of c, /stop, /clear or /provider on c, or a timer, exit, error or
\* stdout event of a process of c
operationOf(c) ==
    \/ \E m \in Msgs : MessageCreate(m, c)
    \/ \E m \in Msgs :
          /\ handler[m].chan = c
          /\ \/ \E b \in BOOLEAN : FolderButton(m, b)
             \/ StatusSent(m)
             \/ StartRun(m)
    \/ Stop(c)
    \/ Clear(c)
    \/ \E pr \in Providers : SetProvider(c, pr)
    \/ \E p \in Msgs :
          /\ proc[p].chan = c
          /\ \/ TimerFire(p)
             \/ \E code \in ExitCodes \cup {NullCode} : ProcClose(p, code)
             \/ ProcError(p)
             \/ StdoutSystem(p)
             \/ \E kind \in {"tool", "plan"} : StdoutToolUse(p, kind)
             \/ \E k \in Calls, e \in BOOLEAN : StdoutToolResult(p, k, e)
             \/ StdoutResult(p)
             \/ ResultSent(p)

\* C33: channels are isolated: a reserve, run, kill, clear, timeout or
\* streamed event of channel a leaves the registry entry, processes, timers,
\* status-message handle, tool-call table and stored session id of every
\* other channel b unchanged.
C33_ChannelsIsolated ==
    [][\A a, b \in Channels :
         a # b /\ operationOf(a) => channelState(b)' = channelState(b)]_vars

\* a process of one channel was signalled while the other channel's process
\* runs on, registered and with its timer pending
C33_OneStoppedOtherRuns ==
    \E p, q \in Msgs :
        /\ proc[p].chan # proc[q].chan
        /\ proc[p].state = "running" /\ proc[p].sigterm
        /\ proc[q].state = "running" /\ ~proc[q].sigterm /\ proc[q].timer = "pending"
        /\ channelProcesses[proc[q].chan] # NoEntry
        /\ channelProcesses[proc[q].chan].process = q

\* the pieces of a body or of the output that are decisions
decisions(data) == {data[i] : i \in 1..Len(data)} \cap {Allow, Deny}

\* C34: the approval relay makes no decision of its own: a line that is not
\* blank is posted unchanged, once, with the channel-identifying headers, a
\* blank line is not posted; what is written to stdout is the server's
\* response body and nothing else, and when the request fails it is the error
\* record, which is neither an allow nor a deny.
C34_RelayDecidesNothing ==
    /\ relayResponse.state # "none" =>
          relayRequests = IF blank(relayLine) THEN <<>>
                          ELSE <<[body |-> relayLine, headers |-> DiscordHeaders]>>
    /\ relayResponse.state \in {"none", "sent", "skipped"} => relayStdout = <<>>
    /\ relayResponse.state = "end" =>
          /\ decisions(relayStdout) \subseteq decisions(relayResponse.data)
          /\ relayStdout \in {<<>>, resolved(relayResponse.data) \o <<"\n">>}
    /\ relayResponse.state = "error" =>
          /\ relayStdout = ConnectionFailed
          /\ decisions(relayStdout) = {}

\* the request of a line failed and the error record was written
C34_ServerUnreachable ==
    /\ ~blank(relayLine)
    /\ relayResponse.state = "error"
    /\ relayStdout # <<>>

\* the writes of log that name table t and channel c
writesTo(log, t, c) ==
    {i \in 1..Len(log) : log[i].op \in {"set", "clear"} /\ log[i].table = t
                                                          /\ log[i].channel_id = c}

\* the value of the latest set of (t, c) in log, the default if there is none
\* or a clear came after it
latestSet(log, t, c) ==
    LET ws == writesTo(log, t, c) IN
    IF ws = {} THEN Default(t)
    ELSE LET last == CHOOSE i \in ws : \A j \in ws : j <= i IN
         IF log[last].op = "set" THEN log[last].value ELSE Default(t)

\* the latest write of (t, c) is a set of a session that a later cleanup
\* found unused for more than thirty days
expired(log, t, c) ==
    LET ws == writesTo(log, t, c) IN
    /\ t = "session" /\ ws # {}
    /\ LET last == CHOOSE i \in ws : \A j \in ws : j <= i IN
       /\ log[last].op = "set"
       /\ \E n \in (last + 1)..Len(log) :
             log[n].op = "cleanup" /\ log[last].at < log[n].at - ThirtyDays

\* C35 as stated: a get returns the value of the latest set for that channel,
\* the default after a clear or when the channel was never written, and sets
\* on one channel never change another channel's value.
C35_LastWriterWins ==
    /\ \A t \in Tables, c \in Channels : get(t, c) = latestSet(dbLog, t, c)
    /\ dbRead # NoRead =>
          dbRead.value = latestSet(SubSeq(dbLog, 1, dbRead.at), dbRead.table,
                                   dbRead.channel_id)

\* C35 amended: a get returns the value of the latest set for that channel,
\* the default after a clear, after a startup cleanup that found the session
\* unused for more than thirty days, or when the channel was never written;
\* sets on one channel never change another channel's value.
C35_LastWriterWinsUntilCleanup ==
    LET expected(log, t, c) ==
            IF expired(log, t, c) THEN Default(t) ELSE latestSet(log, t, c)
    IN /\ \A t \in Tables, c \in Channels : get(t, c) = expected(dbLog, t, c)
       /\ dbRead # NoRead =>
             dbRead.value = expected(SubSeq(dbLog, 1, dbRead.at), dbRead.table,
                                     dbRead.channel_id)

\* a value was set twice on one channel and read back
C35_SecondSetRead ==
    /\ Len(dbLog) = 2
    /\ dbLog[1].op = "set" /\ dbLog[2].op = "set"
    /\ dbLog[1].table = dbLog[2].table /\ dbLog[1].channel_id = dbLog[2].channel_id
    /\ dbLog[1].value # dbLog[2].value
    /\ dbRead.table = dbLog[2].table /\ dbRead.channel_id = dbLog[2].channel_id
    /\ dbRead.at = 2

\* the step is the close, error or result-completion callback of process p
callbackOf(p) ==
    \/ \E code \in ExitCodes \cup {NullCode} : ProcClose(p, code)
    \/ ProcError(p)
    \/ StdoutResult(p)
    \/ ResultSent(p)

\* C36: a registry entry is removed only on behalf of the run that installed
\* it: the close, error or result-completion callback of a process never
\* deletes an entry that holds another, later process of the channel.
C36_EntryRemovedByOwner ==
    [][\A p \in Msgs :
         LET c == proc[p].chan IN
         (/\ c \in Channels
          /\ callbackOf(p)
          /\ channelProcesses[c] # NoEntry
          /\ channelProcesses'[c] = NoEntry)
         => channelProcesses[c].process = p]_vars

\* C37: from the reservation of a channel until the process spawned for it
\* has closed, hasActiveProcess(channel) is true: a process that was spawned
\* and has not closed always blocks new prompts and is reachable by /stop.
C37_LiveProcessHoldsChannel ==
    \A p \in Msgs :
        proc[p].state = "running" => hasActiveProcess(proc[p].chan)

\* C38: after the provider of a channel is switched, the next run never
\* resumes with a continuation id issued by the previously selected provider:
\* a run spawned with a resume argument resumes an id that a process of the
\* channel's current provider reported.
C38_ResumesOwnProvidersId ==
    [][\A m \in Msgs :
         (spawns(m) /\ spawnArgs(m) # <<>>) =>
             proc[handler[m].sid].prov = provider[handler[m].chan]]_vars

\* the last resolution of question text q
lastEvent(q) ==
    LET es == {i \in 1..Len(askEvents) : askEvents[i].question = q} IN
    askEvents[CHOOSE i \in es : \A j \in es : j <= i]

\* C39: the questions of an AskUserQuestion request are presented one at a
\* time in request order and exactly one reply is produced, after all of them
\* are resolved; its answers map gives each question text the selected
\* option's label, the typed free text, or "No response (timed out)" when the
\* wait elapsed, and a request with no questions is answered with the empty
\* map.
C39_OneReplyWithAnswers ==
    /\ Len(askReplies) <= 1
    /\ askReplies # <<>> <=> askStage = "done"
    /\ \A i \in 1..Len(askEvents) : askEvents[i].question = askQuestions[i]
    /\ askReplies # <<>> =>
          /\ Len(askEvents) = Len(askQuestions)
          /\ \A q \in QuestionTexts :
                IF \E i \in 1..Len(askQuestions) : askQuestions[i] = q
                THEN askReplies[1][q] = IF lastEvent(q).outcome = "elapsed"
                                        THEN TimedOut
                                        ELSE lastEvent(q).value
                ELSE askReplies[1][q] = "unset"

\* targetPath is the project folder or lies under it
within(targetPath) ==
    /\ Len(projectPath) <= Len(targetPath)
    /\ SubSeq(targetPath, 1, Len(projectPath)) = projectPath

\* C40: /ls and /cat never read a path outside the project folder: a
\* requested path whose normalized target is neither the project folder nor
\* a descendant of it is refused with the "Cannot access ... outside the
\* project folder" reply and nothing is listed or read.
C40_NothingReadOutsideProject ==
    (pathReply # "none" /\ ~within(join(projectPath, pathRequest.path))) =>
        /\ pathReply = "Cannot access outside the project folder"
        /\ pathRead = <<>>

====
